---- MODULE Spec2Model ----
(***************************************************************************)
(* facebook::yoga::Style (yoga/style/Style.h): the per-node store of the   *)
(* layout-affecting style properties.  A Style is one 32-bit packed word   *)
(* of ten enumerations, four optional floats, one CompactValue and eight   *)
(* enum-indexed containers of CompactValue, all read and written through   *)
(* accessor proxies (BitfieldRef, Ref, IdxRef) and compared by operator==. *)
(*                                                                         *)
(* The model holds two Style instances, lhs and rhs (the operands of       *)
(* operator==), and the log of the accessor writes made on each.           *)
(***************************************************************************)
EXTENDS Integers, Sequences, FiniteSets, TLC

VARIABLES lhs, rhs, logL, logR

vars == <<lhs, rhs, logL, logR>>

(***************************************************************************)
(* Bounds of the exploration.                                              *)
(***************************************************************************)
\* accessor writes explored from default construction
MaxWrites == 2
\* the float payloads tried are 1 and 10, 20, ... 10 * MaxFloat
MaxFloat == 1

Floats == {1} \cup {10 * k : k \in 1..MaxFloat}

(***************************************************************************)
(* Enumerations (YGEnums.h), each the sequence of its enumerators in       *)
(* ordinal order; the ordinal of the i-th enumerator is i - 1.             *)
(***************************************************************************)
YGDirection == <<"Inherit", "LTR", "RTL">>
YGFlexDirection == <<"Column", "ColumnReverse", "Row", "RowReverse">>
YGJustify ==
    <<"FlexStart", "Center", "FlexEnd", "SpaceBetween", "SpaceAround", "SpaceEvenly">>
YGAlign ==
    <<"Auto", "FlexStart", "Center", "FlexEnd", "Stretch", "Baseline",
      "SpaceBetween", "SpaceAround">>
YGPositionType == <<"Static", "Relative", "Absolute">>
YGWrap == <<"NoWrap", "Wrap", "WrapReverse">>
YGOverflow == <<"Visible", "Hidden", "Scroll">>
YGDisplay == <<"Flex", "None">>
YGEdge ==
    <<"Left", "Top", "Right", "Bottom", "Start", "End", "Horizontal", "Vertical", "All">>
YGDimension == <<"Width", "Height">>
YGGutter == <<"Column", "Row", "All">>

\* enums::count<Enum>()
count(Enum) == Len(Enum)

\* the ordinals of an enumeration
Ordinals(Enum) == 0..(count(Enum) - 1)

\* the ordinal of a named enumerator
Ordinal(Enum, name) == (CHOOSE i \in 1..Len(Enum) : Enum[i] = name) - 1

YGAlignFlexStart == Ordinal(YGAlign, "FlexStart")
YGAlignStretch == Ordinal(YGAlign, "Stretch")
YGEdgeLeft == Ordinal(YGEdge, "Left")
YGEdgeTop == Ordinal(YGEdge, "Top")
YGEdgeAll == Ordinal(YGEdge, "All")
YGDimensionWidth == Ordinal(YGDimension, "Width")
YGDimensionHeight == Ordinal(YGDimension, "Height")

(***************************************************************************)
(* The packed word.  A uint32_t is modelled as the set of the positions of *)
(* its 1 bits, so that masking, shifting and or-ing are computed bit by    *)
(* bit and bits shifted past position 31 are lost.                         *)
(***************************************************************************)
WordBits == 32

BitPositions == 0..(WordBits - 1)

\* the word holding the non-negative integer n
RECURSIVE ToWord(_)
ToWord(n) ==
    IF n = 0 THEN {}
    ELSE (IF n % 2 = 1 THEN {0} ELSE {}) \cup {b + 1 : b \in ToWord(n \div 2)}

\* the integer a word of at most 31 significant bits holds
RECURSIVE ToInt(_)
ToInt(w) ==
    IF w = {} THEN 0
    ELSE LET b == CHOOSE x \in w : TRUE IN 2^b + ToInt(w \ {b})

ShiftLeft(w, k) == {b + k : b \in w} \cap BitPositions
ShiftRight(w, k) == {b - k : b \in {x \in w : x >= k}}
BitAnd(w1, w2) == w1 \cap w2
BitOr(w1, w2) == w1 \cup w2
BitNot(w) == BitPositions \ w

\* BitUtils.h: log2ceilFn(n), the number of bits of n
RECURSIVE log2ceilFn(_)
log2ceilFn(n) == IF n < 1 THEN 0 ELSE 1 + log2ceilFn(n \div 2)

\* BitUtils.h: bitWidthFn<Enum>()
bitWidthFn(Enum) == log2ceilFn(count(Enum) - 1)

\* BitUtils.h: mask(bitWidth, index)
mask(bitWidth, index) == ShiftLeft(ToWord(2^bitWidth - 1), index)

\* BitUtils.h: getEnumData<Enum>(flags, index): shift right, mask to the width
getEnumData(Enum, flags, index) ==
    ToInt(BitAnd(ShiftRight(flags, index), mask(bitWidthFn(Enum), 0)))

\* BitUtils.h: setEnumData<Enum>(flags, index, newValue): clear the field's
\* range, then or in the value shifted to the offset
setEnumData(Enum, flags, index, newValue) ==
    BitOr(BitAnd(flags, BitNot(mask(bitWidthFn(Enum), index))),
          ShiftLeft(ToWord(newValue), index))

(***************************************************************************)
(* Style.h:86-104, the offsets of the ten fields of flags.                 *)
(***************************************************************************)
directionOffset == 0
flexdirectionOffset == directionOffset + bitWidthFn(YGDirection)
justifyContentOffset == flexdirectionOffset + bitWidthFn(YGFlexDirection)
\* mutant: alignContent placed by the width of the wrong enumeration
alignContentOffsetWrongWidth == justifyContentOffset + bitWidthFn(YGFlexDirection)
alignContentOffset == justifyContentOffset + bitWidthFn(YGJustify)
alignItemsOffset == alignContentOffset + bitWidthFn(YGAlign)
\* mutant: alignSelf placed after alignContent, on the bits of alignItems
alignSelfOffsetOverlap == alignContentOffset + bitWidthFn(YGAlign)
alignSelfOffset == alignItemsOffset + bitWidthFn(YGAlign)
positionTypeOffset == alignSelfOffset + bitWidthFn(YGAlign)
flexWrapOffset == positionTypeOffset + bitWidthFn(YGPositionType)
overflowOffset == flexWrapOffset + bitWidthFn(YGWrap)
displayOffset == overflowOffset + bitWidthFn(YGOverflow)

(***************************************************************************)
(* Floats, YGFloatOptional and CompactValue.  A float is an integer of     *)
(* Floats or YGUndefined, which stands for the NaN that marks an absent    *)
(* value; FloatEq is the == of floats, under which NaN equals nothing.     *)
(***************************************************************************)
YGUndefined == -1

FloatEq(x, y) == x # YGUndefined /\ y # YGUndefined /\ x = y

\* YGFloatOptional{} : absent
YGFloatOptionalDefault == YGUndefined
isUndefined(o) == o = YGUndefined

\* mutant: the optionals are compared as floats, NaN against NaN included
FloatOptionalEqByValue(a, b) == FloatEq(a, b)

\* operator==(YGFloatOptional, YGFloatOptional): presence, then value
FloatOptionalEq(a, b) ==
    /\ isUndefined(a) = isUndefined(b)
    /\ ~isUndefined(a) => FloatEq(a, b)

ofUndefined == [unit |-> "Undefined", value |-> YGUndefined]
ofAuto == [unit |-> "Auto", value |-> YGUndefined]
ofPoints(x) == [unit |-> "Point", value |-> x]
ofPercent(x) == [unit |-> "Percent", value |-> x]

\* CompactValue{} : Undefined
CompactValueDefault == ofUndefined

\* operator==(CompactValue, CompactValue): the kind, then the payload's bits
CompactValueEq(a, b) == a.unit = b.unit /\ a.value = b.value

\* the CompactValues and optional floats the writes draw from
CompactValues ==
    {ofUndefined, ofAuto} \cup {ofPoints(x) : x \in Floats}
        \cup {ofPercent(x) : x \in Floats}
FloatOptionals == {YGUndefined} \cup Floats

(***************************************************************************)
(* detail::Values<Size>: an array of CompactValue indexed by the ordinals  *)
(* of an enumeration.                                                      *)
(***************************************************************************)
\* Values() : every slot a default CompactValue
ValuesDefault(Enum) == [i \in Ordinals(Enum) |-> CompactValueDefault]

\* Values(defaultValue) : every slot filled with defaultValue
ValuesFill(Enum, defaultValue) == [i \in Ordinals(Enum) |-> defaultValue]

\* operator==(Values, Values): equal at every index
ValuesEq(a, b) ==
    /\ DOMAIN a = DOMAIN b
    /\ \A i \in DOMAIN a : CompactValueEq(a[i], b[i])

\* Style.h:29-31
Dimensions == YGDimension
Edges == YGEdge
\* mutant: gap indexed by the edges
GuttersAsEdges == YGEdge
Gutters == YGGutter

(***************************************************************************)
(* Style.h:106-121, the data members with their default initializers.      *)
(***************************************************************************)
StyleMembers ==
    [flags |-> ToWord(0),
     flex_ |-> YGFloatOptionalDefault,
     flexGrow_ |-> YGFloatOptionalDefault,
     flexShrink_ |-> YGFloatOptionalDefault,
     flexBasis_ |-> ofAuto,
     margin_ |-> ValuesDefault(Edges),
     position_ |-> ValuesDefault(Edges),
     padding_ |-> ValuesDefault(Edges),
     border_ |-> ValuesDefault(Edges),
     gap_ |-> ValuesDefault(Gutters),
     dimensions_ |-> ValuesFill(Dimensions, ofAuto),
     minDimensions_ |-> ValuesDefault(Dimensions),
     maxDimensions_ |-> ValuesDefault(Dimensions),
     aspectRatio_ |-> YGFloatOptionalDefault]

(***************************************************************************)
(* The accessor proxies.  A BitfieldRef is the enumeration and the offset  *)
(* of a field of flags, a Ref is the member it points to, an IdxRef is the *)
(* container member it points to.                                          *)
(***************************************************************************)
\* BitfieldRef<T>::operator T()
BitfieldRefGet(style, ref) == getEnumData(ref.Enum, style.flags, ref.offset)

\* mutant: the field is set in a fresh word, the other fields are lost
BitfieldRefAssignClobber(style, ref, x) ==
    [style EXCEPT !.flags = setEnumData(ref.Enum, ToWord(0), ref.offset, x)]

\* BitfieldRef<T>::operator=(T x)
BitfieldRefAssign(style, ref, x) ==
    [style EXCEPT !.flags = setEnumData(ref.Enum, @, ref.offset, x)]

\* Ref<T, Prop>::operator=(T value)
RefAssign(style, Prop, value) == [style EXCEPT ![Prop] = value]

\* mutant: a write at the aggregate index cascades to every index
IdxRefAssignCascade(style, Prop, idx, value) ==
    IF idx = Cardinality(DOMAIN style[Prop]) - 1
    THEN [style EXCEPT ![Prop] = [i \in DOMAIN @ |-> value]]
    ELSE [style EXCEPT ![Prop][idx] = value]

\* IdxRef<Idx, Prop>::Ref::operator=(CompactValue value)
IdxRefAssign(style, Prop, idx, value) == [style EXCEPT ![Prop][idx] = value]

\* IdxRef<Idx, Prop>::operator=(const Values<Idx>& values)
IdxRefAssignValues(style, Prop, values) == [style EXCEPT ![Prop] = values]

\* the mutable accessors, Style.h:131-188
directionRef == [Enum |-> YGDirection, offset |-> directionOffset]
flexDirectionRef == [Enum |-> YGFlexDirection, offset |-> flexdirectionOffset]
justifyContentRef == [Enum |-> YGJustify, offset |-> justifyContentOffset]
alignContentRef == [Enum |-> YGAlign, offset |-> alignContentOffset]
alignItemsRef == [Enum |-> YGAlign, offset |-> alignItemsOffset]
alignSelfRef == [Enum |-> YGAlign, offset |-> alignSelfOffset]
positionTypeRef == [Enum |-> YGPositionType, offset |-> positionTypeOffset]
flexWrapRef == [Enum |-> YGWrap, offset |-> flexWrapOffset]
overflowRef == [Enum |-> YGOverflow, offset |-> overflowOffset]
displayRef == [Enum |-> YGDisplay, offset |-> displayOffset]

\* the const accessors, Style.h:127-186
direction(style) == getEnumData(YGDirection, style.flags, directionOffset)
flexDirection(style) == getEnumData(YGFlexDirection, style.flags, flexdirectionOffset)
justifyContent(style) == getEnumData(YGJustify, style.flags, justifyContentOffset)
alignContent(style) == getEnumData(YGAlign, style.flags, alignContentOffset)
alignItems(style) == getEnumData(YGAlign, style.flags, alignItemsOffset)
alignSelf(style) == getEnumData(YGAlign, style.flags, alignSelfOffset)
positionType(style) == getEnumData(YGPositionType, style.flags, positionTypeOffset)
flexWrap(style) == getEnumData(YGWrap, style.flags, flexWrapOffset)
overflow(style) == getEnumData(YGOverflow, style.flags, overflowOffset)
\* mutant: display() reads at the offset of overflow
displayAtOverflow(style) == getEnumData(YGDisplay, style.flags, overflowOffset)
display(style) == getEnumData(YGDisplay, style.flags, displayOffset)

\* the const accessors, Style.h:190-231
flex(style) == style.flex_
flexGrow(style) == style.flexGrow_
flexShrink(style) == style.flexShrink_
flexBasis(style) == style.flexBasis_
margin(style) == style.margin_
position(style) == style.position_
padding(style) == style.padding_
border(style) == style.border_
gap(style) == style.gap_
dimensions(style) == style.dimensions_
minDimensions(style) == style.minDimensions_
maxDimensions(style) == style.maxDimensions_
aspectRatio(style) == style.aspectRatio_

\* the mutable accessors, Style.h:191-232: the member each Ref and IdxRef is
\* instantiated with
flexRef == "flex_"
\* mutant: flexGrow() bound to the member of flexShrink()
flexGrowRefShrink == "flexShrink_"
flexGrowRef == "flexGrow_"
flexShrinkRef == "flexShrink_"
flexBasisRef == "flexBasis_"
marginRef == "margin_"
positionRef == "position_"
paddingRef == "padding_"
borderRef == "border_"
gapRef == "gap_"
dimensionsRef == "dimensions_"
minDimensionsRef == "minDimensions_"
maxDimensionsRef == "maxDimensions_"
aspectRatioRef == "aspectRatio_"

\* mutant: the constructor leaves alignItems at ordinal 0
StyleDefaultNoStretch == BitfieldRefAssign(StyleMembers, alignContentRef, YGAlignFlexStart)

\* Style::Style()
StyleDefault ==
    BitfieldRefAssign(
        BitfieldRefAssign(StyleMembers, alignContentRef, YGAlignFlexStart),
        alignItemsRef, YGAlignStretch)

(***************************************************************************)
(* operator== (Style.cpp) and operator!= (Style.h:236-238).                *)
(***************************************************************************)
StyleEq(a, b) ==
    /\ a.flags = b.flags
    /\ FloatOptionalEq(flex(a), flex(b))
    /\ FloatOptionalEq(flexGrow(a), flexGrow(b))
    /\ FloatOptionalEq(flexShrink(a), flexShrink(b))
    /\ CompactValueEq(flexBasis(a), flexBasis(b))
    /\ ValuesEq(margin(a), margin(b))
    /\ ValuesEq(position(a), position(b))
    /\ ValuesEq(padding(a), padding(b))
    /\ ValuesEq(border(a), border(b))
    /\ ValuesEq(gap(a), gap(b))
    /\ ValuesEq(dimensions(a), dimensions(b))
    /\ ValuesEq(minDimensions(a), minDimensions(b))
    /\ ValuesEq(maxDimensions(a), maxDimensions(b))
    /\ FloatOptionalEq(aspectRatio(a), aspectRatio(b))

\* mutant: operator!= looks at the packed word only
StyleNeFlagsOnly(a, b) == a.flags # b.flags

StyleNe(a, b) == ~StyleEq(a, b)

(***************************************************************************)
(* The accessor writes.  A write names the accessor, the index written     *)
(* (0 for an accessor without index) and the value: a CompactValue by its  *)
(* unit and payload, an enumerator or an optional float by val alone.      *)
(***************************************************************************)
EnumAccessors ==
    {"direction", "flexDirection", "justifyContent", "alignContent", "alignItems",
     "alignSelf", "positionType", "flexWrap", "overflow", "display"}
FloatAccessors == {"flex", "flexGrow", "flexShrink", "aspectRatio"}
EdgeAccessors == {"margin", "position", "padding", "border"}
GutterAccessors == {"gap"}
DimensionAccessors == {"dimensions", "minDimensions", "maxDimensions"}
IdxAccessors == EdgeAccessors \cup GutterAccessors \cup DimensionAccessors

\* the BitfieldRef a mutable packed accessor returns
EnumRef(acc) ==
    CASE acc = "direction" -> directionRef
      [] acc = "flexDirection" -> flexDirectionRef
      [] acc = "justifyContent" -> justifyContentRef
      [] acc = "alignContent" -> alignContentRef
      [] acc = "alignItems" -> alignItemsRef
      [] acc = "alignSelf" -> alignSelfRef
      [] acc = "positionType" -> positionTypeRef
      [] acc = "flexWrap" -> flexWrapRef
      [] acc = "overflow" -> overflowRef
      [] acc = "display" -> displayRef

\* the member a mutable Ref or IdxRef accessor is bound to
MemberRef(acc) ==
    CASE acc = "flex" -> flexRef
      [] acc = "flexGrow" -> flexGrowRef
      [] acc = "flexShrink" -> flexShrinkRef
      [] acc = "flexBasis" -> flexBasisRef
      [] acc = "margin" -> marginRef
      [] acc = "position" -> positionRef
      [] acc = "padding" -> paddingRef
      [] acc = "border" -> borderRef
      [] acc = "gap" -> gapRef
      [] acc = "dimensions" -> dimensionsRef
      [] acc = "minDimensions" -> minDimensionsRef
      [] acc = "maxDimensions" -> maxDimensionsRef
      [] acc = "aspectRatio" -> aspectRatioRef

\* what the const accessor acc (at index idx, for a container) returns
Read(style, acc, idx) ==
    CASE acc = "direction" -> direction(style)
      [] acc = "flexDirection" -> flexDirection(style)
      [] acc = "justifyContent" -> justifyContent(style)
      [] acc = "alignContent" -> alignContent(style)
      [] acc = "alignItems" -> alignItems(style)
      [] acc = "alignSelf" -> alignSelf(style)
      [] acc = "positionType" -> positionType(style)
      [] acc = "flexWrap" -> flexWrap(style)
      [] acc = "overflow" -> overflow(style)
      [] acc = "display" -> display(style)
      [] acc = "flex" -> flex(style)
      [] acc = "flexGrow" -> flexGrow(style)
      [] acc = "flexShrink" -> flexShrink(style)
      [] acc = "flexBasis" -> flexBasis(style)
      [] acc = "margin" -> margin(style)[idx]
      [] acc = "position" -> position(style)[idx]
      [] acc = "padding" -> padding(style)[idx]
      [] acc = "border" -> border(style)[idx]
      [] acc = "gap" -> gap(style)[idx]
      [] acc = "dimensions" -> dimensions(style)[idx]
      [] acc = "minDimensions" -> minDimensions(style)[idx]
      [] acc = "maxDimensions" -> maxDimensions(style)[idx]
      [] acc = "aspectRatio" -> aspectRatio(style)

\* the index type of a container accessor
IdxOf(acc) ==
    CASE acc \in EdgeAccessors -> Edges
      [] acc \in GutterAccessors -> Gutters
      [] acc \in DimensionAccessors -> Dimensions

EnumWrites ==
    UNION {{[kind |-> "enum", acc |-> a, idx |-> 0, unit |-> "Enum", val |-> x] :
               x \in Ordinals(EnumRef(a).Enum)} : a \in EnumAccessors}
FloatWrites ==
    {[kind |-> "float", acc |-> a, idx |-> 0, unit |-> "Float", val |-> x] :
        a \in FloatAccessors, x \in FloatOptionals}
FlexBasisWrites ==
    {[kind |-> "value", acc |-> "flexBasis", idx |-> 0, unit |-> v.unit,
      val |-> v.value] : v \in CompactValues}
SlotWrites ==
    UNION {{[kind |-> "slot", acc |-> a, idx |-> i, unit |-> v.unit, val |-> v.value] :
               i \in Ordinals(IdxOf(a)), v \in CompactValues} : a \in IdxAccessors}
Writes == EnumWrites \cup FloatWrites \cup FlexBasisWrites \cup SlotWrites

\* the value a write carries, as the const accessor returns it
Written(w) ==
    IF w.kind \in {"enum", "float"} THEN w.val ELSE [unit |-> w.unit, value |-> w.val]

\* style after the write w through the mutable accessor w.acc
Apply(style, w) ==
    CASE w.kind = "enum" -> BitfieldRefAssign(style, EnumRef(w.acc), w.val)
      [] w.kind = "float" -> RefAssign(style, MemberRef(w.acc), w.val)
      [] w.kind = "value" -> RefAssign(style, MemberRef(w.acc), Written(w))
      [] w.kind = "slot" -> IdxRefAssign(style, MemberRef(w.acc), w.idx, Written(w))

(***************************************************************************)
(* Spec: a client holds two Styles and writes either through any accessor. *)
(***************************************************************************)
Sides == {"lhs", "rhs"}
Instance(side) == IF side = "lhs" THEN lhs ELSE rhs
Other(side) == IF side = "lhs" THEN rhs ELSE lhs

Init ==
    /\ lhs = StyleDefault
    /\ rhs = StyleDefault
    /\ logL = <<>>
    /\ logR = <<>>

\* the exploration stops after MaxWrites writes
MayWrite == Len(logL) + Len(logR) < MaxWrites

\* the instance of side becomes style, by the write w
Update(side, style, w) ==
    /\ IF side = "lhs"
         THEN lhs' = style /\ logL' = Append(logL, w) /\ UNCHANGED <<rhs, logR>>
         ELSE rhs' = style /\ logR' = Append(logR, w) /\ UNCHANGED <<lhs, logL>>

\* style.direction() = x, and the nine other packed accessors
BitfieldWrite(side) ==
    /\ MayWrite
    /\ \E w \in EnumWrites : Update(side, Apply(Instance(side), w), w)

\* style.flex() = value, and flexGrow, flexShrink, aspectRatio
FloatWrite(side) ==
    /\ MayWrite
    /\ \E w \in FloatWrites : Update(side, Apply(Instance(side), w), w)

\* style.flexBasis() = value
FlexBasisWrite(side) ==
    /\ MayWrite
    /\ \E w \in FlexBasisWrites : Update(side, Apply(Instance(side), w), w)

\* style.margin()[idx] = value, and the seven other containers
SlotWrite(side) ==
    /\ MayWrite
    /\ \E w \in SlotWrites : Update(side, Apply(Instance(side), w), w)

\* style.margin() = other.padding(): a whole container assigned from a
\* container of the same index type of the other Style
ValuesWrite(side) ==
    /\ MayWrite
    /\ \E acc \in IdxAccessors, from \in IdxAccessors :
          /\ IdxOf(acc) = IdxOf(from)
          /\ Update(side,
                    IdxRefAssignValues(Instance(side), MemberRef(acc),
                                       Other(side)[MemberRef(from)]),
                    [kind |-> "values", acc |-> acc, idx |-> 0, unit |-> "Values",
                     val |-> 0])

Next ==
    \E side \in Sides :
        \/ BitfieldWrite(side)
        \/ FloatWrite(side)
        \/ FlexBasisWrite(side)
        \/ SlotWrite(side)
        \/ ValuesWrite(side)

Spec == Init /\ [][Next]_vars

(***************************************************************************)
(* SpecOrder: a client builds lhs by any writes and replays the writes it  *)
(* made, each once and in any order, on rhs.                               *)
(***************************************************************************)
Range(log) == {log[i] : i \in DOMAIN log}

\* a further write on lhs
Build ==
    /\ Len(logL) < MaxWrites
    /\ \E w \in Writes :
          /\ lhs' = Apply(lhs, w)
          /\ logL' = Append(logL, w)
          /\ UNCHANGED <<rhs, logR>>

\* a write made on lhs and not yet on rhs is made on rhs
Replay ==
    \E w \in Range(logL) \ Range(logR) :
        /\ rhs' = Apply(rhs, w)
        /\ logR' = Append(logR, w)
        /\ UNCHANGED <<lhs, logL>>

NextOrder == Build \/ Replay

SpecOrder == Init /\ [][NextOrder]_vars

(***************************************************************************)
(* What a step wrote: the logs only grow, by the write of the step.        *)
(***************************************************************************)
LogOf(side) == IF side = "lhs" THEN logL ELSE logR
InstanceNext(side) == IF side = "lhs" THEN lhs' ELSE rhs'
LogNext(side) == IF side = "lhs" THEN logL' ELSE logR'
Wrote(side) == Len(LogNext(side)) = Len(LogOf(side)) + 1
NewWrite(side) == LogNext(side)[Len(LogNext(side))]

\* every property and container slot of a Style, as <<accessor, index>>
Targets ==
    {<<a, 0>> : a \in EnumAccessors \cup FloatAccessors \cup {"flexBasis"}}
        \cup UNION {{<<a, i>> : i \in Ordinals(IdxOf(a))} : a \in IdxAccessors}

(***************************************************************************)
(* C1.  Field isolation of the packed word: a step that sets a packed-enum *)
(* property to an ordinal of its enumeration makes that property read the  *)
(* ordinal and leaves what every other packed-enum property reads as it    *)
(* was.                                                                    *)
(***************************************************************************)
C1_FieldIsolationStep ==
    \A side \in Sides :
        (Wrote(side) /\ NewWrite(side).kind = "enum") =>
            LET w == NewWrite(side) IN
            /\ w.val \in Ordinals(EnumRef(w.acc).Enum)
            /\ Read(InstanceNext(side), w.acc, 0) = w.val
            /\ \A a \in EnumAccessors \ {w.acc} :
                  Read(InstanceNext(side), a, 0) = Read(Instance(side), a, 0)

C1_FieldIsolation == [][C1_FieldIsolationStep]_vars

\* alignSelf is set to its highest ordinal between two fields set before
C1_Witness ==
    /\ Len(logL) = 2
    /\ logL[1].acc = "alignItems" /\ logL[1].val = 5
    /\ logL[2].acc = "alignSelf" /\ logL[2].val = 7
    /\ alignSelf(lhs) = 7
    /\ alignItems(lhs) = 5
    /\ alignContent(lhs) = YGAlignFlexStart

(***************************************************************************)
(* C2.  Index isolation: a step that writes value v at index i of an       *)
(* indexed container makes index i read v and leaves every other index of  *)
(* that container as it was; writing the "all" index does not change what  *)
(* "left" or any other index reads.                                        *)
(***************************************************************************)
C2_IndexIsolationStep ==
    \A side \in Sides :
        (Wrote(side) /\ NewWrite(side).kind = "slot") =>
            LET w == NewWrite(side) IN
            /\ Read(InstanceNext(side), w.acc, w.idx) = Written(w)
            /\ \A j \in Ordinals(IdxOf(w.acc)) \ {w.idx} :
                  Read(InstanceNext(side), w.acc, j) = Read(Instance(side), w.acc, j)

C2_IndexIsolation == [][C2_IndexIsolationStep]_vars

\* margin[All] is written after margin[Left], which keeps its value
C2_Witness ==
    /\ Len(logL) = 2
    /\ logL[1].acc = "margin" /\ logL[1].idx = YGEdgeLeft /\ logL[1].unit = "Percent"
    /\ logL[2].acc = "margin" /\ logL[2].idx = YGEdgeAll /\ logL[2].unit = "Point"
    /\ margin(lhs)[YGEdgeLeft] = Written(logL[1])
    /\ margin(lhs)[YGEdgeAll] = Written(logL[2])
    /\ margin(lhs)[YGEdgeTop] = ofUndefined

(***************************************************************************)
(* C3.  Default values: a Style nothing was written to reads alignContent  *)
(* FlexStart, alignItems Stretch, flexBasis and both dimensions Auto,      *)
(* ordinal 0 from the eight other packed-enum properties, Undefined from   *)
(* every slot of margin, position, padding, border, gap, minDimensions and *)
(* maxDimensions, and absent from flex, flexGrow, flexShrink, aspectRatio. *)
(***************************************************************************)
ReadsDefaults(style) ==
    /\ alignContent(style) = YGAlignFlexStart
    /\ alignItems(style) = YGAlignStretch
    /\ flexBasis(style).unit = "Auto"
    /\ dimensions(style)[YGDimensionWidth].unit = "Auto"
    /\ dimensions(style)[YGDimensionHeight].unit = "Auto"
    /\ \A a \in EnumAccessors \ {"alignContent", "alignItems"} : Read(style, a, 0) = 0
    /\ \A a \in IdxAccessors \ {"dimensions"} :
          \A i \in Ordinals(IdxOf(a)) : Read(style, a, i).unit = "Undefined"
    /\ \A a \in FloatAccessors : isUndefined(Read(style, a, 0))

C3_DefaultValues ==
    /\ logL = <<>> => ReadsDefaults(lhs)
    /\ logR = <<>> => ReadsDefaults(rhs)

\* lhs is as constructed while rhs has been written
C3_Witness ==
    /\ logL = <<>>
    /\ Len(logR) = MaxWrites
    /\ alignItems(lhs) = YGAlignStretch
    /\ isUndefined(flexGrow(lhs))

(***************************************************************************)
(* C4.  Determinism: when the same set of writes has been made on lhs and  *)
(* on rhs, in whatever order on each, lhs == rhs.  As stated this fails    *)
(* for a set that writes one property with two values, where the last      *)
(* write wins; it holds for the sets that write no property or slot with   *)
(* two different values.                                                   *)
(***************************************************************************)
SameWrites == Range(logL) = Range(logR)

\* no property or slot is written with two different values
NoConflict(W) ==
    \A w1 \in W, w2 \in W : (w1.acc = w2.acc /\ w1.idx = w2.idx) => w1 = w2

\* C4 as stated
C4_OrderIndependent_Original == SameWrites => StyleEq(lhs, rhs)

\* C4 as amended
C4_OrderIndependent == (SameWrites /\ NoConflict(Range(logL))) => StyleEq(lhs, rhs)

\* two writes to neighbouring packed fields, replayed in the opposite order
C4_Witness ==
    /\ Len(logL) = 2 /\ Len(logR) = 2
    /\ logL[1].acc = "alignItems" /\ logL[1].val = 7
    /\ logL[2].acc = "alignSelf" /\ logL[2].val = 7
    /\ logR[1] = logL[2]
    /\ logR[2] = logL[1]
    /\ StyleEq(lhs, rhs)

(***************************************************************************)
(* C5.  Equality is discriminating: two Styles whose accessors read        *)
(* different values for exactly one property or container slot are not     *)
(* equal under operator== and are unequal under operator!=, and operator!= *)
(* is always the negation of operator==.                                   *)
(***************************************************************************)
Differing(a, b) == {t \in Targets : Read(a, t[1], t[2]) # Read(b, t[1], t[2])}

C5_EqualityDiscriminates ==
    /\ Cardinality(Differing(lhs, rhs)) = 1 => (~StyleEq(lhs, rhs) /\ StyleNe(lhs, rhs))
    /\ StyleNe(lhs, rhs) = ~StyleEq(lhs, rhs)
    /\ StyleNe(rhs, lhs) = ~StyleEq(rhs, lhs)

\* the two Styles differ in the payload of margin[Left] alone
C5_Witness ==
    /\ Len(logL) = 1 /\ Len(logR) = 1
    /\ logL[1].acc = "margin" /\ logL[1].idx = YGEdgeLeft /\ logL[1].unit = "Point"
    /\ logR[1].acc = "margin" /\ logR[1].idx = YGEdgeLeft /\ logR[1].unit = "Point"
    /\ Differing(lhs, rhs) = {<<"margin", YGEdgeLeft>>}
    /\ StyleNe(lhs, rhs)

(***************************************************************************)
(* C6.  Reflexivity: every Style reached from default construction by      *)
(* accessor writes, the default one included, is equal to itself under     *)
(* operator==.                                                             *)
(***************************************************************************)
C6_Reflexive == StyleEq(lhs, lhs) /\ StyleEq(rhs, rhs)

\* a written Style with absent optionals and Undefined slots left
C6_Witness ==
    /\ Len(logL) = MaxWrites
    /\ logL[1].acc = "flexGrow" /\ ~isUndefined(flexGrow(lhs))
    /\ isUndefined(flexShrink(lhs))
    /\ padding(lhs)[YGEdgeAll] = ofUndefined
    /\ StyleEq(lhs, lhs)

(***************************************************************************)
(* C7.  Packed-word layout: in the order direction, flexDirection,         *)
(* justifyContent, alignContent, alignItems, alignSelf, positionType,      *)
(* flexWrap, overflow, display, each field starts at the sum of the widths *)
(* of the fields before it, its width being the least number of bits that  *)
(* holds the ordinals of its enumeration; the ranges are contiguous and    *)
(* pairwise disjoint, the last one ends within the 32 bits of flags, and   *)
(* each accessor reads exactly the bits of its range.                      *)
(***************************************************************************)
FieldOrder ==
    <<"direction", "flexDirection", "justifyContent", "alignContent", "alignItems",
      "alignSelf", "positionType", "flexWrap", "overflow", "display">>

\* the least number of bits that hold the ordinals 0 .. n - 1
MinBits(n) ==
    CHOOSE w \in 0..WordBits : 2^w >= n /\ \A u \in 0..(w - 1) : 2^u < n

FieldWidth == [i \in DOMAIN FieldOrder |-> MinBits(count(EnumRef(FieldOrder[i]).Enum))]

\* the sum of the widths of the first i fields
SumWidths[i \in 0..Len(FieldOrder)] ==
    IF i = 0 THEN 0 ELSE FieldWidth[i] + SumWidths[i - 1]

FieldBits == [i \in DOMAIN FieldOrder |-> SumWidths[i - 1]..(SumWidths[i] - 1)]

\* the integer that the bits of field i of flags hold
FieldAt(flags, i) == ToInt({b - SumWidths[i - 1] : b \in flags \cap FieldBits[i]})

\* the layout of the ten fields
LayoutAsStated ==
    /\ \A i \in DOMAIN FieldOrder : EnumRef(FieldOrder[i]).offset = SumWidths[i - 1]
    /\ \A i \in DOMAIN FieldOrder, j \in DOMAIN FieldOrder :
          i # j => FieldBits[i] \cap FieldBits[j] = {}
    /\ \A i \in 1..(Len(FieldOrder) - 1) :
          EnumRef(FieldOrder[i + 1]).offset = EnumRef(FieldOrder[i]).offset + FieldWidth[i]
    /\ displayOffset + FieldWidth[Len(FieldOrder)] <= WordBits

C7_PackedLayout ==
    /\ LayoutAsStated
    /\ \A i \in DOMAIN FieldOrder :
          /\ Read(lhs, FieldOrder[i], 0) = FieldAt(lhs.flags, i)
          /\ Read(rhs, FieldOrder[i], 0) = FieldAt(rhs.flags, i)

\* the first and the last field of the word are both set
C7_Witness ==
    /\ Len(logL) = 2
    /\ direction(lhs) = 2
    /\ display(lhs) = 1
    /\ displayOffset \in lhs.flags
    /\ \A b \in lhs.flags : b < WordBits

(***************************************************************************)
(* C8.  As stated: margin, position, padding, border and gap are indexed   *)
(* by the nine edges and have 9 slots each.  As amended: margin, position, *)
(* padding and border are indexed by the nine edges and have 9 slots each, *)
(* and gap is indexed by the three gutters and has 3 slots.                *)
(***************************************************************************)
SlotsOf(style, acc) == DOMAIN style[MemberRef(acc)]

\* C8 as stated
C8_FiveEdgeContainers_Original ==
    \A a \in {"margin", "position", "padding", "border", "gap"} :
        /\ SlotsOf(lhs, a) = Ordinals(YGEdge) /\ Cardinality(SlotsOf(lhs, a)) = 9
        /\ SlotsOf(rhs, a) = Ordinals(YGEdge) /\ Cardinality(SlotsOf(rhs, a)) = 9

\* C8 as amended
C8_EdgeAndGutterContainers ==
    /\ \A a \in {"margin", "position", "padding", "border"} :
          /\ SlotsOf(lhs, a) = Ordinals(YGEdge) /\ Cardinality(SlotsOf(lhs, a)) = 9
          /\ SlotsOf(rhs, a) = Ordinals(YGEdge) /\ Cardinality(SlotsOf(rhs, a)) = 9
    /\ SlotsOf(lhs, "gap") = Ordinals(YGGutter) /\ Cardinality(SlotsOf(lhs, "gap")) = 3
    /\ SlotsOf(rhs, "gap") = Ordinals(YGGutter) /\ Cardinality(SlotsOf(rhs, "gap")) = 3

\* the last slot of gap and the last slot of border are both written
C8_Witness ==
    /\ Len(logL) = 2
    /\ logL[1].acc = "gap" /\ logL[1].idx = Ordinal(YGGutter, "All")
    /\ logL[2].acc = "border" /\ logL[2].idx = YGEdgeAll
    /\ gap(lhs)[Ordinal(YGGutter, "All")] = ofPoints(10)
    /\ border(lhs)[YGEdgeAll] = ofPercent(10)

(***************************************************************************)
(* C9.  Properties are independently settable across the three encodings:  *)
(* a step that writes a packed-enum property, an optional float, flexBasis *)
(* or one container slot makes that property or slot read the written      *)
(* value and leaves every other property and slot of the Style as it was.  *)
(* After flexGrow = 1.0 and margin[Left] = Point 10 on a default Style,    *)
(* flexGrow is present and 1.0, margin[Left] is Point 10, margin[Top] is   *)
(* Undefined, the packed-enum properties read their defaults and the Style *)
(* is unequal to a default Style.                                          *)
(***************************************************************************)
C9_IndependentStep ==
    \A side \in Sides :
        (Wrote(side) /\ NewWrite(side).kind \in {"enum", "float", "value", "slot"}) =>
            LET w == NewWrite(side) IN
            /\ Read(InstanceNext(side), w.acc, w.idx) = Written(w)
            /\ \A t \in Targets \ {<<w.acc, w.idx>>} :
                  Read(InstanceNext(side), t[1], t[2]) = Read(Instance(side), t[1], t[2])

ScenarioLog ==
    <<[kind |-> "float", acc |-> "flexGrow", idx |-> 0, unit |-> "Float", val |-> 1],
      [kind |-> "slot", acc |-> "margin", idx |-> YGEdgeLeft, unit |-> "Point",
       val |-> 10]>>

C9_Scenario ==
    logL = ScenarioLog =>
        /\ ~isUndefined(flexGrow(lhs)) /\ flexGrow(lhs) = 1
        /\ margin(lhs)[YGEdgeLeft].unit = "Point" /\ margin(lhs)[YGEdgeLeft].value = 10
        /\ margin(lhs)[YGEdgeTop].unit = "Undefined"
        /\ \A a \in EnumAccessors : Read(lhs, a, 0) = Read(StyleDefault, a, 0)
        /\ StyleNe(lhs, StyleDefault)

C9_IndependentlySettable == [][C9_IndependentStep]_vars /\ []C9_Scenario

\* the scenario has run
C9_Witness ==
    /\ logL = ScenarioLog
    /\ flexGrow(lhs) = 1
    /\ margin(lhs)[YGEdgeLeft] = ofPoints(10)

(***************************************************************************)
(* C10.  The packed words of two Styles are equal exactly when the ten     *)
(* packed-enum properties of the two read pairwise equal, and no bit of    *)
(* flags outside the ranges of the ten fields is ever set.                 *)
(***************************************************************************)
RefBits(ref) == ref.offset..(ref.offset + bitWidthFn(ref.Enum) - 1)
UsedBits == UNION {RefBits(EnumRef(a)) : a \in EnumAccessors}
PackedEqual(a, b) == \A acc \in EnumAccessors : Read(a, acc, 0) = Read(b, acc, 0)

C10_WordEquality ==
    /\ (lhs.flags = rhs.flags) <=> PackedEqual(lhs, rhs)
    /\ lhs.flags \subseteq UsedBits
    /\ rhs.flags \subseteq UsedBits

\* both Styles were written through packed accessors and hold the same word
C10_Witness ==
    /\ Len(logL) = 1 /\ Len(logR) = 1
    /\ logL[1].acc = "display" /\ logL[1].val = 1
    /\ logR[1].acc = "display" /\ logR[1].val = 1
    /\ lhs.flags = rhs.flags
    /\ lhs.flags # StyleDefault.flags

====
